---- MODULE Spec2Model ----
(***************************************************************************)
(* Volunteer Scheduler (src/app.py): the date-seeded cohort rotation, the  *)
(* per-slot merge/sort/distribute loop, the reserves log and the volunteer *)
(* lookup, as a state machine over the script's module-level names.        *)
(*                                                                         *)
(* Python strings that the script formats, joins, splits or compares are   *)
(* sequences of one-character strings; labels that are only used as keys   *)
(* (time-slot labels, column names, role names) are TLA+ strings.          *)
(***************************************************************************)
EXTENDS Integers, Sequences, FiniteSets, TLC

VARIABLES
    selected_date,      \* st.date_input: [year, yday] (yday = timetuple().tm_yday)
    rotation_index,     \* day_of_year % 4 (or the rot_idx argument of generate_schedule)
    total_volunteers,   \* st.number_input (or the total_ppl argument)
    groups,             \* generate_schedule's local: the 4 cohorts before rotation
    cohort_data,        \* the cohort_map returned by generate_schedule
    pc,                 \* position of the script run
    slot_idx,           \* number of schedule_pattern entries processed
    pool,               \* the merged, sorted pool of the entry processed last
    assignments,        \* assignments[counter_index][time_slot] = names_str
    reserves_log,       \* list of {"Time", "Reserves"}
    search_q,           \* st.text_input
    found,              \* the search block's result list
    notice              \* what the search block displays: "none", "table", "warning"

vars == <<selected_date, rotation_index, total_volunteers, groups, cohort_data, pc,
          slot_idx, pool, assignments, reserves_log, search_q, found, notice>>

-----------------------------------------------------------------------------
(* Bounds of the model *)

\* largest volunteer count drawn
MaxTotal == 250
\* generate_schedule is applied to rot_idx in -MaxRot..MaxRot
MaxRot == 6
\* the calendar runs over the years FirstYear .. FirstYear + NumYears - 1
FirstYear == 2024
NumYears == 4
\* the build is run for the first InitDays days of FirstYear
InitDays == 4

(* Program constants *)

counters == 30
MinVolunteers == 240
DefaultVolunteers == 250

-----------------------------------------------------------------------------
(* Python values *)

Min(a, b) == IF a < b THEN a ELSE b
Max(a, b) == IF a > b THEN a ELSE b

\* Python's clamping of a slice bound against a list of length n
SliceBound(i, n) == IF i < 0 THEN Max(i + n, 0) ELSE Min(i, n)

\* s[a:b] with 0-based bounds
PySlice(s, a, b) ==
    LET lo == SliceBound(a, Len(s))
        hi == SliceBound(b, Len(s))
    IN  IF lo >= hi THEN <<>> ELSE SubSeq(s, lo + 1, hi)

\* s[a:]
PySliceFrom(s, a) == SubSeq(s, SliceBound(a, Len(s)) + 1, Len(s))

\* s[:b]
PySliceTo(s, b) == SubSeq(s, 1, SliceBound(b, Len(s)))

DigitChars == <<"0", "1", "2", "3", "4", "5", "6", "7", "8", "9">>

DigitMap == ("0" :> 0) @@ ("1" :> 1) @@ ("2" :> 2) @@ ("3" :> 3) @@ ("4" :> 4) @@
            ("5" :> 5) @@ ("6" :> 6) @@ ("7" :> 7) @@ ("8" :> 8) @@ ("9" :> 9)

\* c.isdigit()
IsDigit(c) == c \in DOMAIN DigitMap

DigitValue(c) == DigitMap[c]

\* str(n) for n >= 0
RECURSIVE Str(_)
Str(n) == IF n < 10 THEN <<DigitChars[n + 1]>>
          ELSE Str(n \div 10) \o <<DigitChars[(n % 10) + 1]>>

\* int(s) for a non-empty string of digits
RECURSIVE ParseInt(_)
ParseInt(s) == IF Len(s) = 0 THEN 0
               ELSE 10 * ParseInt(SubSeq(s, 1, Len(s) - 1)) + DigitValue(s[Len(s)])

\* ''.join(filter(str.isdigit, s))
FilterDigits(s) == SelectSeq(s, IsDigit)

\* sep.join(parts)
RECURSIVE Join(_, _)
Join(sep, parts) ==
    IF Len(parts) = 0 THEN <<>>
    ELSE IF Len(parts) = 1 THEN parts[1]
    ELSE parts[1] \o sep \o Join(sep, Tail(parts))

StartsWith(s, p) == Len(p) <= Len(s) /\ SubSeq(s, 1, Len(p)) = p

\* s.split(sep): cut at every occurrence of sep, scanning left to right
RECURSIVE SplitFrom(_, _, _)
SplitFrom(s, sep, cur) ==
    IF Len(s) = 0 THEN <<cur>>
    ELSE IF StartsWith(s, sep)
         THEN <<cur>> \o SplitFrom(SubSeq(s, Len(sep) + 1, Len(s)), sep, <<>>)
         ELSE SplitFrom(Tail(s), sep, Append(cur, s[1]))

Split(s, sep) == SplitFrom(s, sep, <<>>)

\* x in list
InList(x, list) == \E k \in 1..Len(list) : list[k] = x

CommaSpace == <<",", " ">>
VPrefix == <<"V", "-">>
CounterPrefix == <<"C", "o", "u", "n", "t", "e", "r", " ">>
\* the warning sign, its variation selector, a space and the word EMPTY
EmptyMarker == <<"U+26A0", "U+FE0F", " ", "E", "M", "P", "T", "Y">>

-----------------------------------------------------------------------------
(* The sidebar: date -> rotation index *)

IsLeap(y) == (y % 4 = 0) /\ ((y % 100 # 0) \/ (y % 400 = 0))
DaysIn(y) == IF IsLeap(y) THEN 366 ELSE 365
LastYear == FirstYear + NumYears - 1

Dates == { d \in [year : FirstYear..LastYear, yday : 1..366] : d.yday <= DaysIn(d.year) }

\* date + datetime.timedelta(days=1)
NextDate(d) == IF d.yday < DaysIn(d.year)
               THEN [year |-> d.year, yday |-> d.yday + 1]
               ELSE [year |-> d.year + 1, yday |-> 1]

\* day_of_year = selected_date.timetuple().tm_yday; rotation_index = day_of_year % 4
RotationPeriod == 4
RotationOfDate(d) == d.yday % RotationPeriod

-----------------------------------------------------------------------------
(* generate_schedule *)

Keys == <<"1", "2", "3", "4">>

Volunteer(i) == [id_str |-> VPrefix \o Str(i), id_num |-> i]

\* [{"id_str": f"V-{i}", "id_num": i} for i in range(1, total_ppl + 1)]
\* (variant: range(1, total_ppl), one volunteer short)
master_list_short(total_ppl) == [i \in 1..(total_ppl - 1) |-> Volunteer(i)]
master_list(total_ppl) == [i \in 1..total_ppl |-> Volunteer(i)]

\* math.ceil(total_ppl / 4)
\* (variant: total_ppl // 4)
chunk_floor(total_ppl) == total_ppl \div 4
chunk(total_ppl) == (total_ppl + 3) \div 4

Groups(total_ppl) ==
    LET ml == master_list(total_ppl)
        c  == chunk(total_ppl)
    IN  << PySlice(ml, 0, c),
           PySlice(ml, c, c * 2),
           PySlice(ml, c * 2, c * 3),
           PySliceFrom(ml, c * 3) >>

\* groups[rot_idx:] + groups[:rot_idx]
\* (variant: groups[-rot_idx:] + groups[:-rot_idx], a rotation to the right)
rotated_groups_right(gs, rot_idx) == PySliceFrom(gs, 0 - rot_idx) \o PySliceTo(gs, 0 - rot_idx)
rotated_groups(gs, rot_idx) == PySliceFrom(gs, rot_idx) \o PySliceTo(gs, rot_idx)

cohort_map(gs, rot_idx) ==
    LET rotated == rotated_groups(gs, rot_idx)
    IN  [k \in {"1", "2", "3", "4"} |->
            rotated[CHOOSE j \in 1..4 : Keys[j] = k]]

EmptyTable == [i \in 0..(counters - 1) |-> <<>>]

\* cohort_data = generate_schedule(total_volunteers, rotation_index), and the
\* empty containers of the build
Generate ==
    /\ pc = "generate"
    /\ groups' = Groups(total_volunteers)
    /\ cohort_data' = cohort_map(groups', rotation_index)
    /\ assignments' = EmptyTable
    /\ reserves_log' = <<>>
    /\ slot_idx' = 0
    /\ pool' = <<>>
    /\ pc' = "build"
    /\ UNCHANGED <<selected_date, rotation_index, total_volunteers, search_q, found, notice>>

NoCohorts == [k \in {"1", "2", "3", "4"} |-> <<>>]

\* the names of a script run before any of them is assigned
FreshRun ==
    /\ groups = <<>>
    /\ cohort_data = NoCohorts
    /\ pc = "generate"
    /\ slot_idx = 0
    /\ pool = <<>>
    /\ assignments = EmptyTable
    /\ reserves_log = <<>>
    /\ found = <<>>
    /\ notice = "none"

InitGenerate ==
    /\ selected_date = [year |-> FirstYear, yday |-> 1]
    /\ rotation_index \in (0 - MaxRot)..MaxRot
    /\ total_volunteers \in 1..MaxTotal
    /\ search_q = <<>>
    /\ FreshRun

NextGenerate == Generate

SpecGenerate == InitGenerate /\ [][NextGenerate]_vars

-----------------------------------------------------------------------------
(* The calendar: the date widget moved to the following day reruns the script *)

NoOutputs ==
    /\ groups' = <<>>
    /\ cohort_data' = NoCohorts
    /\ slot_idx' = 0
    /\ pool' = <<>>
    /\ assignments' = EmptyTable
    /\ reserves_log' = <<>>
    /\ found' = <<>>
    /\ notice' = "none"

SelectNextDay ==
    /\ NextDate(selected_date) \in Dates
    /\ selected_date' = NextDate(selected_date)
    /\ rotation_index' = RotationOfDate(selected_date')
    /\ pc' = "generate"
    /\ NoOutputs
    /\ UNCHANGED <<total_volunteers, search_q>>

InitCalendar ==
    /\ selected_date \in Dates
    /\ rotation_index = RotationOfDate(selected_date)
    /\ total_volunteers = DefaultVolunteers
    /\ search_q = <<>>
    /\ FreshRun

NextCalendar == SelectNextDay \/ Generate

SpecCalendar == InitCalendar /\ [][NextCalendar]_vars

-----------------------------------------------------------------------------
(* The schedule pattern and the build loop *)

schedule_pattern == <<
    [time |-> "08:00 - 10:00 (Peak)", keys |-> <<"1", "2">>, req |-> 4],
    [time |-> "10:00 - 12:00 (Peak)", keys |-> <<"3", "4">>, req |-> 4],
    [time |-> "12:00 - 14:00 (Peak)", keys |-> <<"1", "2">>, req |-> 4],
    [time |-> "14:00 - 16:00 (Peak)", keys |-> <<"3", "4">>, req |-> 4],
    [time |-> "16:00 - 18:00 (Off)",  keys |-> <<"1">>,      req |-> 2],
    [time |-> "18:00 - 20:00 (Off)",  keys |-> <<"2">>,      req |-> 2],
    [time |-> "20:00 - 22:00 (Off)",  keys |-> <<"3">>,      req |-> 2],
    [time |-> "22:00 - 00:00 (Off)",  keys |-> <<"4">>,      req |-> 2],
    [time |-> "00:00 - 02:00 (Off)",  keys |-> <<"1">>,      req |-> 2],
    [time |-> "02:00 - 04:00 (Off)",  keys |-> <<"2">>,      req |-> 2],
    [time |-> "04:00 - 06:00 (Off)",  keys |-> <<"3">>,      req |-> 2],
    [time |-> "06:00 - 08:00 (Off)",  keys |-> <<"4">>,      req |-> 2] >>

NumSlots == Len(schedule_pattern)

\* pool = []; for key in active_group_keys: pool.extend(cohort_data[key])
RECURSIVE Merge(_, _)
Merge(cd, active_group_keys) ==
    IF Len(active_group_keys) = 0 THEN <<>>
    ELSE cd[active_group_keys[1]] \o Merge(cd, Tail(active_group_keys))

ByIdNum(a, b) == a.id_num < b.id_num

\* pool.sort(key=lambda x: x['id_num'])
\* (variant: the sort left out)
Unsorted(pl) == pl
Sort(pl) == SortSeq(pl, ByIdNum)

ShiftPool(cd, active_group_keys) == Sort(Merge(cd, active_group_keys))

\* ", ".join([p['id_str'] for p in ppl])
JoinNames(ppl) == Join(CommaSpace, [k \in 1..Len(ppl) |-> ppl[k].id_str])

\* names_str of one counter
names_str(ppl) ==
    IF Len(ppl) = 0 THEN EmptyMarker ELSE JoinNames(ppl)

\* the slice of one counter: pool[current_idx : current_idx + req_per_counter]
\* (variant: pool[current_idx : current_idx + 1])
assigned_ppl_one(pl, current_idx, req_per_counter) ==
    PySlice(pl, current_idx, current_idx + 1)
assigned_ppl(pl, current_idx, req_per_counter) ==
    PySlice(pl, current_idx, current_idx + req_per_counter)

\* for i in range(counters): ...; current_idx += req_per_counter
\* yields the names_str of counters i.., and current_idx after the loop
RECURSIVE Distribute(_, _, _, _)
Distribute(pl, req_per_counter, i, current_idx) ==
    IF i >= counters THEN [cells |-> <<>>, current_idx |-> current_idx]
    ELSE LET rest == Distribute(pl, req_per_counter, i + 1,
                                current_idx + req_per_counter)
         IN  [cells |-> <<names_str(assigned_ppl(pl, current_idx, req_per_counter))>>
                          \o rest.cells,
              current_idx |-> rest.current_idx]

\* leftovers = pool[current_idx:]
\* (variant: the whole pool)
leftovers_all(pl, current_idx) == pl
leftovers(pl, current_idx) == PySliceFrom(pl, current_idx)

\* d[key] = value
DictSet(d, key, value) == (key :> value) @@ d

\* if leftovers: reserves_log.append({"Time": time_slot, "Reserves": reserves_names})
\* (variant: the entry appended without the test)
LogAlways(log, time_slot, left) ==
    Append(log, [Time |-> time_slot, Reserves |-> JoinNames(left)])
LogReserves(log, time_slot, left) ==
    IF Len(left) = 0 THEN log
    ELSE Append(log, [Time |-> time_slot, Reserves |-> JoinNames(left)])

\* one iteration of: for time_slot, active_group_keys, req_per_counter in schedule_pattern
ProcessSlot ==
    /\ pc = "build"
    /\ slot_idx < NumSlots
    /\ \E entry \in {schedule_pattern[slot_idx + 1]} :
       \E pool_ \in {ShiftPool(cohort_data, entry.keys)} :
       \E dist \in {Distribute(pool_, entry.req, 0, 0)} :
          /\ pool' = pool_
          /\ assignments' = [i \in 0..(counters - 1) |->
                                DictSet(assignments[i], entry.time, dist.cells[i + 1])]
          /\ reserves_log' = LogReserves(reserves_log, entry.time,
                                         leftovers(pool_, dist.current_idx))
    /\ slot_idx' = slot_idx + 1
    /\ pc' = IF slot_idx' = NumSlots THEN "search" ELSE "build"
    /\ UNCHANGED <<selected_date, rotation_index, total_volunteers, groups, cohort_data,
                   search_q, found, notice>>

-----------------------------------------------------------------------------
(* The build as a function of the volunteer count and the date *)

InitBuild ==
    /\ selected_date \in { d \in Dates : d.year = FirstYear /\ d.yday <= InitDays }
    /\ rotation_index = RotationOfDate(selected_date)
    /\ total_volunteers \in 1..MaxTotal
    /\ search_q = <<>>
    /\ FreshRun

NextBuild == Generate \/ ProcessSlot

SpecBuild == InitBuild /\ [][NextBuild]_vars

-----------------------------------------------------------------------------
(* The table and the search block *)

\* f"Counter {i+1}"
CounterLabel(i) == CounterPrefix \o Str(i + 1)

\* row = {"Counter": ...}; row.update(assignments[i])
final_table_data ==
    [i \in 0..(counters - 1) |-> assignments[i] @@ ("Counter" :> CounterLabel(i))]

\* df.columns: the keys of the rows in insertion order
df_columns == <<"Counter">> \o [k \in 1..NumSlots |-> schedule_pattern[k].time]

\* target in text
\* (variant: containment in the text instead of membership in its split)
MatchSubstring(text, target) ==
    \E pos \in 1..(Len(text) - Len(target) + 1) :
        SubSeq(text, pos, pos + Len(target) - 1) = target

\* target in text.split(", ")
Match(text, target) == InList(target, Split(text, CommaSpace))

\* for idx, row in df.iterrows(): for col in df.columns: ...
SearchTable(df, target) ==
    LET ncols == Len(df_columns)
        order == [n \in 1..(counters * ncols) |->
                     [idx |-> (n - 1) \div ncols, col |-> df_columns[((n - 1) % ncols) + 1]]]
        IsHit(c) == c.col # "Counter" /\ Match(df[c.idx][c.col], target)
        hits == SelectSeq(order, IsHit)
    IN  [j \in 1..Len(hits) |->
            [Time |-> hits[j].col, Location |-> df[hits[j].idx]["Counter"],
             Role |-> "Counter Duty"]]

ReserveArea == <<"R", "e", "s", "e", "r", "v", "e", " ", "A", "r", "e", "a">>

\* for item in reserves_log: ...
SearchReserves(log, target) ==
    LET IsHit(item) == Match(item.Reserves, target)
        hits == SelectSeq(log, IsHit)
    IN  [j \in 1..Len(hits) |->
            [Time |-> hits[j].Time, Location |-> ReserveArea, Role |-> "Standby"]]

\* f"V-{int(q_num)}"
Target(q_num) == VPrefix \o Str(ParseInt(q_num))

SearchBlock(q) ==
    IF Len(q) = 0 THEN [found |-> <<>>, notice |-> "none"]
    ELSE IF Len(FilterDigits(q)) = 0 THEN [found |-> <<>>, notice |-> "none"]
    ELSE LET target == Target(FilterDigits(q))
             hits == SearchTable(final_table_data, target)
                         \o SearchReserves(reserves_log, target)
         IN  [found |-> hits, notice |-> IF Len(hits) > 0 THEN "table" ELSE "warning"]

\* the texts typed into the search box
Queries == { <<>>,
             <<"1">>,
             <<"1", "0">>,
             <<"0", "0", "7">>,
             <<"V", "-", "6", "1">>,
             <<"2", " ", "4", "1">>,
             <<"a", "b", "c">>,
             <<"#", "9", "9", "9">> }

Search ==
    /\ pc = "search"
    /\ \E q \in Queries :
       \E res \in {SearchBlock(q)} :
          /\ search_q' = q
          /\ found' = res.found
          /\ notice' = res.notice
    /\ pc' = "done"
    /\ UNCHANGED <<selected_date, rotation_index, total_volunteers, groups, cohort_data,
                   slot_idx, pool, assignments, reserves_log>>

-----------------------------------------------------------------------------
(* The application: the widgets' values, one script run, one search *)

Init ==
    /\ selected_date \in { d \in Dates : d.year = FirstYear /\ d.yday <= InitDays }
    /\ rotation_index = RotationOfDate(selected_date)
    /\ total_volunteers \in MinVolunteers..MaxTotal
    /\ search_q = <<>>
    /\ FreshRun

Next == Generate \/ ProcessSlot \/ Search

Spec == Init /\ [][Next]_vars

-----------------------------------------------------------------------------
(* Reading the rendered strings back: what a cell or a reserve entry lists *)

\* The volunteer numbers a rendered list names, read token by token:
\* "V-<digits>" separated by ", ". Anything else reads as <<-1>>.
\* st is what is expected at pos: "V", "-", "d1" (first digit), "d" (digit or ","), "sp".
RECURSIVE ReadIds(_, _, _, _, _)
ReadIds(text, pos, st, acc, out) ==
    IF pos > Len(text) THEN IF st = "d" THEN Append(out, acc) ELSE <<-1>>
    ELSE LET c == text[pos] IN
         IF st = "V" /\ c = "V" THEN ReadIds(text, pos + 1, "-", 0, out)
         ELSE IF st = "-" /\ c = "-" THEN ReadIds(text, pos + 1, "d1", 0, out)
         ELSE IF st \in {"d1", "d"} /\ IsDigit(c)
              THEN ReadIds(text, pos + 1, "d", 10 * acc + DigitValue(c), out)
         ELSE IF st = "d" /\ c = "," THEN ReadIds(text, pos + 1, "sp", 0, Append(out, acc))
         ELSE IF st = "sp" /\ c = " " THEN ReadIds(text, pos + 1, "V", 0, out)
         ELSE <<-1>>

\* the volunteers of a table cell: none under the empty marker
CellIds(cell) == IF cell = EmptyMarker THEN <<>> ELSE ReadIds(cell, 1, "V", 0, <<>>)

\* the volunteers of a reserve entry
ReserveIds(text) == ReadIds(text, 1, "V", 0, <<>>)

IdNums(ppl) == [k \in 1..Len(ppl) |-> ppl[k].id_num]
IdSet(ppl) == { ppl[k].id_num : k \in 1..Len(ppl) }
Range(seq) == { seq[k] : k \in 1..Len(seq) }

StrictlyIncreasing(nums) == \A k \in 1..(Len(nums) - 1) : nums[k] < nums[k + 1]

SlotTime(s) == schedule_pattern[s].time
SlotReq(s) == schedule_pattern[s].req

\* the volunteers on duty in slot s: the members of its active cohorts
ActiveIds(s) ==
    UNION { IdSet(cohort_data[schedule_pattern[s].keys[j]]) :
              j \in 1..Len(schedule_pattern[s].keys) }

\* the reserve entries logged for slot s (their texts)
LoggedFor(s) ==
    { reserves_log[j].Reserves : j \in { n \in 1..Len(reserves_log) :
                                           reserves_log[n].Time = SlotTime(s) } }

\* the slots whose pattern entry has been processed
Processed == 1..slot_idx

\* what the cells of slot s list, counter by counter (counter i at index i + 1)
RECURSIVE ColumnIds(_, _)
ColumnIds(s, i) ==
    IF i >= counters THEN <<>>
    ELSE <<CellIds(assignments[i][SlotTime(s)])>> \o ColumnIds(s, i + 1)

\* the number of elements of a pool of n that lie at positions i*req .. i*req+req-1
SliceSize(n, req, i) == Max(0, Min(req, n - i * req))

\* the cells col of a slot with on-duty volunteers duty and per-counter headcount
\* req, read counter after counter, list the volunteers on duty in increasing order,
\* the first req of them at counter 0, the next req at counter 1, ...
ColumnIsSortedPoolInSlices(col, duty, req) ==
    /\ \A i \in 0..(counters - 1) :
          /\ Len(col[i + 1]) = SliceSize(Cardinality(duty), req, i)
          /\ StrictlyIncreasing(col[i + 1])
          /\ Range(col[i + 1]) \subseteq duty
    /\ \A i \in 1..(counters - 1) :
          Len(col[i + 1]) > 0 => col[i][Len(col[i])] < col[i + 1][1]
    \* nobody on duty is skipped in between: the cells hold the smallest ones
    /\ \A v \in duty \ UNION { Range(col[i]) : i \in 1..counters } :
          \A i \in 1..counters : \A k \in 1..Len(col[i]) : col[i][k] < v

\* the slots looked at in a state: the one whose entry was processed last while
\* the loop runs, and all of them once the loop has ended
Checked == IF pc = "build" THEN Processed \ (1..(slot_idx - 1)) ELSE Processed

Built == pc \in {"build", "search", "done"}

SumLen(seqs) ==
    LET RECURSIVE Sum(_)
        Sum(k) == IF k = 0 THEN 0 ELSE Len(seqs[k]) + Sum(k - 1)
    IN  Sum(Len(seqs))

RECURSIVE Flatten(_)
Flatten(seqs) == IF Len(seqs) = 0 THEN <<>> ELSE seqs[1] \o Flatten(Tail(seqs))

\* ceil(n / 4), by its defining inequalities
CeilQuarter(n) == CHOOSE c \in 0..n : 4 * c >= n /\ 4 * (c - 1) < n

-----------------------------------------------------------------------------
(* generate_schedule: C1, C4, C5 (checked under SpecGenerate) *)

\* C1: for every volunteer count N >= 1 and every rotation index the 4 cohorts
\* partition the roster: their union is exactly 1..N and no id occurs twice,
\* neither in two cohorts nor twice in one (the sizes add up to N). This holds of
\* the cohorts before rotation and of the rotated map.
C1_CohortsPartitionRoster ==
    Built =>
        /\ Len(groups) = 4
        /\ UNION { IdSet(groups[g]) : g \in 1..4 } = 1..total_volunteers
        /\ SumLen(groups) = total_volunteers
        /\ UNION { IdSet(cohort_data[k]) : k \in DOMAIN cohort_data } = 1..total_volunteers
        /\ SumLen([j \in 1..4 |-> cohort_data[Keys[j]]]) = total_volunteers

C1_Witness ==
    /\ pc = "build"
    /\ total_volunteers = 6
    /\ rotation_index = 3
    /\ Len(groups[3]) = 2
    /\ Len(groups[4]) = 0
    /\ IdSet(cohort_data["2"]) = {1, 2}

\* C4 as claimed: cohorts 1, 2 and 3 hold ceil(N/4) volunteers each, cohort 4 the
\* remaining N - 3*ceil(N/4), and that number is never negative.
C4_AsClaimed ==
    Built =>
        /\ Len(groups) = 4
        /\ \A g \in 1..3 : Len(groups[g]) = CeilQuarter(total_volunteers)
        /\ Len(groups[4]) = total_volunteers - 3 * CeilQuarter(total_volunteers)
        /\ total_volunteers - 3 * CeilQuarter(total_volunteers) >= 0

\* C4 (amended): there are exactly 4 cohorts and cohort g holds
\* min(c, max(0, N - (g-1)*c)) volunteers, c = ceil(N/4); for every N other than
\* 1, 2 and 5 that is c for cohorts 1-3 and the non-negative N - 3c for cohort 4.
C4_CohortSizes ==
    Built =>
        LET c == CeilQuarter(total_volunteers) IN
        /\ Len(groups) = 4
        /\ \A g \in 1..4 :
              Len(groups[g]) = Min(c, Max(0, total_volunteers - (g - 1) * c))
        /\ total_volunteers \notin {1, 2, 5} =>
              /\ \A g \in 1..3 : Len(groups[g]) = c
              /\ Len(groups[4]) = total_volunteers - 3 * c
              /\ total_volunteers - 3 * c >= 0

C4_Witness ==
    /\ pc = "build"
    /\ total_volunteers = 5
    /\ total_volunteers - 3 * CeilQuarter(total_volunteers) < 0
    /\ Len(groups[3]) = 1
    /\ Len(groups[4]) = 0

\* C5 as claimed: for every integer rotation index r, in range or not, key number
\* i (0..3) is given the cohort original[(i + (r mod 4)) mod 4].
C5_AsClaimed ==
    Built =>
        \A i \in 0..3 :
            cohort_data[Keys[i + 1]] = groups[((i + (rotation_index % 4)) % 4) + 1]

\* the rotation generate_schedule applies for r: r mod 4 when -4 <= r <= 4, none otherwise
AppliedShift(r) == IF r >= -4 /\ r <= 4 THEN r % 4 ELSE 0

\* C5 (amended): for -4 <= r <= 4 key number i is given the cohort
\* original[(i + (r mod 4)) mod 4]; for r > 4 or r < -4 the rotation index is not
\* reduced modulo 4 and key number i is given original[i]. In every case the map
\* is a bijection between the 4 keys and the 4 cohorts.
C5_RotationMap ==
    Built =>
        /\ DOMAIN cohort_data = {"1", "2", "3", "4"}
        /\ \A i \in 0..3 :
              cohort_data[Keys[i + 1]] = groups[((i + AppliedShift(rotation_index)) % 4) + 1]
        /\ \E perm \in Permutations(1..4) :
              \A j \in 1..4 : cohort_data[Keys[j]] = groups[perm[j]]

C5_Witness ==
    /\ pc = "build"
    /\ rotation_index = 5
    /\ total_volunteers = 8
    /\ cohort_data["1"] = groups[1]
    /\ cohort_data["1"] # groups[2]

-----------------------------------------------------------------------------
(* The rotation index over consecutive days: C6 (checked under SpecCalendar) *)

\* C6: whenever the roster date moves to the following calendar day, the rotation
\* index becomes (the previous day's index + 1) mod 4, the last day of a year
\* followed by 1 January included.
C6_ConsecutiveDaysAdvance ==
    [][selected_date' = NextDate(selected_date)
          => rotation_index' = (rotation_index + 1) % 4]_vars

-----------------------------------------------------------------------------
(* The build loop: C2, C3, C7, C8 (checked under SpecBuild) *)

\* C2: for the slot just processed, the volunteers listed in the 30 cells plus
\* those listed in the slot's reserve entry are as many as the pool holds, they
\* are the pool's members, and none is listed twice.
C2_Conservation ==
    slot_idx >= 1 =>
        \A col \in {ColumnIds(slot_idx, 0)} :
        \A res \in {Flatten([j \in 1..Len(reserves_log) |->
                        IF reserves_log[j].Time = SlotTime(slot_idx)
                        THEN ReserveIds(reserves_log[j].Reserves) ELSE <<>>])} :
            /\ SumLen(col) + Len(res) = Len(pool)
            /\ Range(Flatten(col)) \cup Range(res) = IdSet(pool)
            /\ Cardinality(Range(Flatten(col)) \cup Range(res)) = SumLen(col) + Len(res)

C2_Witness ==
    /\ pc = "build"
    /\ slot_idx = 5
    /\ total_volunteers = 241
    /\ rotation_index = 1
    /\ Len(pool) = 61
    /\ Len(reserves_log) = 3
    /\ reserves_log[3].Time = SlotTime(5)
    /\ reserves_log[3].Reserves = <<"V", "-", "1", "2", "2">>
    /\ CellIds(assignments[29][SlotTime(5)]) = <<120, 121>>

\* C3: the pool of the slot just processed lists ids in strictly increasing
\* numeric order, whichever cohorts were merged and in whichever order, it holds
\* as many volunteers as the active cohorts together, and they are their members.
C3_PoolSortedAndComplete ==
    slot_idx >= 1 =>
        /\ StrictlyIncreasing(IdNums(pool))
        /\ Len(pool) = SumLen([j \in 1..Len(schedule_pattern[slot_idx].keys) |->
                                  cohort_data[schedule_pattern[slot_idx].keys[j]]])
        /\ IdSet(pool) = ActiveIds(slot_idx)

\* keys '3','4' name cohort D then cohort A: the concatenation is out of order
C3_Witness ==
    /\ pc = "build"
    /\ slot_idx = 2
    /\ rotation_index = 1
    /\ total_volunteers = 250
    /\ cohort_data["3"][1].id_num = 190
    /\ cohort_data["4"][1].id_num = 1
    /\ pool[1].id_num = 1
    /\ pool[Len(pool)].id_num = 250

\* C7: in every processed time slot, counter i is assigned exactly the elements at
\* positions i*req .. i*req+req-1 of the slot's sorted pool that exist (fewer when the
\* pool ends inside the range, none when it ends before it), the cell shows the empty
\* marker exactly when that slice is empty, and nothing else is put into the cell.
C7_CounterSlices ==
    /\ \A s \in Checked :
          /\ \A i \in 0..(counters - 1) :
                /\ SlotTime(s) \in DOMAIN assignments[i]
                /\ (assignments[i][SlotTime(s)] = EmptyMarker)
                       <=> (Cardinality(ActiveIds(s)) <= i * SlotReq(s))
          /\ \A col \in {ColumnIds(s, 0)} : \A duty \in {ActiveIds(s)} :
                ColumnIsSortedPoolInSlices(col, duty, SlotReq(s))
    /\ slot_idx >= 1 =>
          \A i \in 0..(counters - 1) :
              CellIds(assignments[i][SlotTime(slot_idx)]) =
                  [k \in 1..SliceSize(Len(pool), SlotReq(slot_idx), i) |->
                      pool[i * SlotReq(slot_idx) + k].id_num]

\* N = 241 on a day with rotation index 1: cohort D (58 volunteers) alone staffs
\* the third off-peak slot; counter 29 has a short slice, counter 30 an empty one
C7_Witness ==
    /\ pc = "build"
    /\ slot_idx = 7
    /\ total_volunteers = 241
    /\ rotation_index = 1
    /\ Len(pool) = 58
    /\ assignments[0][SlotTime(7)] = <<"V", "-", "1", "8", "4", ",", " ", "V", "-", "1", "8", "5">>
    /\ CellIds(assignments[28][SlotTime(7)]) = <<240, 241>>
    /\ assignments[29][SlotTime(7)] = EmptyMarker
    /\ \A j \in 1..Len(reserves_log) : reserves_log[j].Time # SlotTime(7)

SlotOfTime(t) == CHOOSE s \in 1..NumSlots : SlotTime(s) = t

\* C8: the reserves log holds an entry for a processed slot exactly when the
\* slot's pool has more than 30*req elements (and then only one); the entry lists
\* the pool elements at index >= 30*req in pool order, that is the on-duty
\* volunteers beyond the 30*req smallest, in increasing order; the entries follow
\* the order of their slots in the pattern.
C8_ReservesLog ==
    /\ \A s \in Processed : \A duty \in {ActiveIds(s)} :
          /\ Cardinality({ j \in 1..Len(reserves_log) : reserves_log[j].Time = SlotTime(s) })
                 = IF Cardinality(duty) > counters * SlotReq(s) THEN 1 ELSE 0
          /\ \A text \in LoggedFor(s) : \A ids \in {ReserveIds(text)} :
                /\ Len(ids) = Cardinality(duty) - counters * SlotReq(s)
                /\ StrictlyIncreasing(ids)
                /\ Range(ids) \subseteq duty
                /\ \A v \in duty \ Range(ids) : v < ids[1]
    /\ \A j \in 1..Len(reserves_log) :
          /\ \E s \in Processed : reserves_log[j].Time = SlotTime(s)
          /\ \A k \in (j + 1)..Len(reserves_log) :
                SlotOfTime(reserves_log[j].Time) < SlotOfTime(reserves_log[k].Time)
    /\ slot_idx >= 1 =>
          \A text \in LoggedFor(slot_idx) :
              ReserveIds(text) =
                  [k \in 1..(Len(pool) - counters * SlotReq(slot_idx)) |->
                      pool[counters * SlotReq(slot_idx) + k].id_num]

\* N = 250 on a day with rotation index 0 (cohorts of 63, 63, 63, 61): all 12
\* entries are processed and every slot leaves reserves
C8_Witness ==
    /\ pc = "search"
    /\ slot_idx = NumSlots
    /\ total_volunteers = 250
    /\ rotation_index = 0
    /\ Len(reserves_log) = 12
    /\ reserves_log[1].Time = SlotTime(1)
    /\ reserves_log[1].Reserves =
           <<"V", "-", "1", "2", "1", ",", " ", "V", "-", "1", "2", "2", ",", " ",
             "V", "-", "1", "2", "3", ",", " ", "V", "-", "1", "2", "4", ",", " ",
             "V", "-", "1", "2", "5", ",", " ", "V", "-", "1", "2", "6">>
    /\ reserves_log[12].Time = SlotTime(12)
    /\ ReserveIds(reserves_log[12].Reserves) = <<250>>

-----------------------------------------------------------------------------
(* The application: C9, C10 (checked under Spec) *)

RECURSIVE Pow10(_)
Pow10(n) == IF n = 0 THEN 1 ELSE 10 * Pow10(n - 1)

\* the digit characters of a text, in order
DigitsOf(text) == SelectSeq(text, LAMBDA c : c \in {"0", "1", "2", "3", "4", "5", "6", "7", "8", "9"})

\* the number the digit characters of a text form: sum of digit * 10^place
QueryNumber(text) ==
    LET ds == DigitsOf(text)
        RECURSIVE Sum(_)
        Sum(j) == IF j > Len(ds) THEN 0
                  ELSE DigitMap[ds[j]] * Pow10(Len(ds) - j) + Sum(j + 1)
    IN  Sum(1)

\* the 0-based position of volunteer v in the sorted pool of slot s
PoolPosition(s, v) == Cardinality({ u \in ActiveIds(s) : u < v })

\* the records the lookup owes volunteer number v: one Counter Duty record per
\* slot in which v is among the volunteers assigned to a counter, naming that
\* counter, and one Standby record per slot in which v is among the reserves
DutyRecords(v) ==
    { [Time |-> SlotTime(s), Location |-> CounterLabel(PoolPosition(s, v) \div SlotReq(s)),
       Role |-> "Counter Duty"] :
        s \in { t \in 1..NumSlots : v \in ActiveIds(t)
                                    /\ PoolPosition(t, v) < counters * SlotReq(t) } }

StandbyRecords(v) ==
    { [Time |-> SlotTime(s), Location |-> ReserveArea, Role |-> "Standby"] :
        s \in { t \in 1..NumSlots : v \in ActiveIds(t)
                                    /\ PoolPosition(t, v) >= counters * SlotReq(t) } }

Searched == pc = "done" /\ Len(DigitsOf(search_q)) > 0

\* C9: for a query whose digit characters form the number k, the lookup reports a
\* Counter Duty record for a (time slot, counter) cell exactly when volunteer k is
\* assigned to that cell and a Standby record for a time slot exactly when k is
\* among that slot's reserves, each once; a cell or reserve entry listing only ids
\* that have k's digits as a prefix or substring yields no record.
C9_ExactTokenLookup ==
    Searched =>
        \A k \in {QueryNumber(search_q)} :
            /\ Range(found) = DutyRecords(k) \cup StandbyRecords(k)
            /\ Len(found) = Cardinality(DutyRecords(k) \cup StandbyRecords(k))
            /\ \A s \in 1..NumSlots : \A i \in 0..(counters - 1) :
                  (\E j \in 1..Len(found) :
                       /\ found[j].Time = SlotTime(s)
                       /\ found[j].Location = CounterLabel(i)
                       /\ found[j].Role = "Counter Duty")
                  <=> k \in Range(CellIds(assignments[i][SlotTime(s)]))
            /\ \A s \in 1..NumSlots :
                  (\E j \in 1..Len(found) :
                       found[j].Time = SlotTime(s) /\ found[j].Role = "Standby")
                  <=> \E text \in LoggedFor(s) : k \in Range(ReserveIds(text))

\* the query "1" on a day when V-1 is on duty in the first slot: counter 1 is
\* reported, counter 3 (V-9 .. V-12) is not, although "V-1" is a prefix of "V-10"
C9_Witness ==
    /\ pc = "done"
    /\ search_q = <<"1">>
    /\ CellIds(assignments[0][SlotTime(1)]) = <<1, 2, 3, 4>>
    /\ CellIds(assignments[2][SlotTime(1)]) = <<9, 10, 11, 12>>
    /\ \E j \in 1..Len(found) :
          found[j].Time = SlotTime(1) /\ found[j].Location = CounterLabel(0)
    /\ \A j \in 1..Len(found) :
          ~(found[j].Time = SlotTime(1) /\ found[j].Location = CounterLabel(2))
    /\ notice = "table"

\* C10: with at least the minimum of 240 volunteers, once the 12 entries are
\* processed every counter of every slot lists exactly req_per_counter volunteers
\* (4 in peak slots, 2 in off-peak slots): no cell is short or empty.
C10_EveryCounterFullyStaffed ==
    (pc \in {"search", "done"} /\ total_volunteers >= MinVolunteers) =>
        \A s \in 1..NumSlots : \A i \in 0..(counters - 1) :
            /\ assignments[i][SlotTime(s)] # EmptyMarker
            /\ Len(CellIds(assignments[i][SlotTime(s)])) = SlotReq(s)

====
